---- MODULE Spec2Model ----
(***************************************************************************)
(* The useTransfers hook (src/src/hooks/useTransfers.tsx), the date        *)
(* utilities it uses (src/src/utils/dateUtils.ts) and the pagination of    *)
(* TransfersTable, as a state machine.  One action is one event of the     *)
(* single logic thread: a user event or a prop change together with the    *)
(* render and the effects it causes, or the completion of a network call.  *)
(***************************************************************************)
EXTENDS Integers, Sequences, FiniteSets, TLC

(***************************************************************************)
(* Values.  Every nullable JavaScript value is a record, so that any two   *)
(* values can be compared: Null stands for null and undefined, Str(c) for  *)
(* a string given by its characters, Lit(s) for a string whose characters  *)
(* are never inspected.                                                    *)
(***************************************************************************)
Null == [null |-> TRUE]

Str(c) == [chars |-> c]

Lit(s) == [lit |-> s]

\* JavaScript truthiness of a model value: null, undefined and "" are falsy
Truthy(v) == v # Null /\ v # Str(<<>>)

\* a || b
OrElse(a, b) == IF Truthy(a) THEN a ELSE b

(***************************************************************************)
(* Bounds of the model                                                     *)
(***************************************************************************)
\* records in one response of the record source
MaxRecords == 1

\* summary requests outstanding at once (the code has no limit)
MaxSummaryInFlight == 2

\* record requests outstanding at once the model can hold (the guard keeps it at 1)
MaxRecordInFlight == 2

(***************************************************************************)
(* Dates.  A Date is its local calendar fields; InvalidDate is the Date    *)
(* whose getTime() is NaN.                                                 *)
(***************************************************************************)
InvalidDate == [invalid |-> TRUE]

MkDate(y, m, d, h) == [year |-> y, month |-> m, day |-> d, hours |-> h]

IsValidDate(d) == d # Null /\ d # InvalidDate

\* new Date(value) of a raw field: a well-formed instant, or Invalid Date
\* for a field that is absent (undefined) or is not a date
NewDate(v) == IF v = Null \/ v = Lit("garbage") THEN InvalidDate ELSE v

months == <<"Jan", "Feb", "Mar", "Apr", "May", "Jun", "Jul", "Aug", "Sep", "Oct", "Nov", "Dec">>

\* tokens of a display string, as split(' ') yields them
Word(s) == [word |-> s]

Num(ds, c) == [digits |-> ds, comma |-> c]

RECURSIVE Digits(_)
\* the decimal digits of a natural number, as string interpolation writes it
Digits(n) == IF n < 10 THEN <<n>> ELSE Append(Digits(n \div 10), n % 10)

RECURSIVE DigitsValue(_)
DigitsValue(ds) == IF ds = <<>> THEN 0 ELSE 10 * DigitsValue(SubSeq(ds, 1, Len(ds) - 1)) + ds[Len(ds)]

NaN == [nan |-> TRUE]

\* a JavaScript number that is not NaN
Number(n) == [n |-> n]

\* parseInt of a token: the leading digits, NaN when there are none
parseInt(tok) == IF "digits" \in DOMAIN tok /\ tok.digits # <<>> THEN Number(DigitsValue(tok.digits)) ELSE NaN

\* monthMap[token]: the month index, Null (undefined) for any other token
monthMap(tok) ==
    IF "word" \in DOMAIN tok /\ \E i \in 1..12 : months[i] = tok.word
    THEN Number((CHOOSE i \in 1..12 : months[i] = tok.word) - 1)
    ELSE Null

\* a display string, given by the tokens split(' ') yields
Display(toks) == [tokens |-> toks]

\* the digits of a day of the month written with two digits
TwoDigits(n) == IF n < 10 THEN <<0, n>> ELSE Digits(n)

\* a formatDate that writes the day before the month
formatDate_DayFirst(date) ==
    IF ~IsValidDate(date)
    THEN Display(<<Word("Invalid"), Word("date")>>)
    ELSE Display(<<Num(Digits(date.day), FALSE), Word(months[date.month + 1]), Num(Digits(date.year), FALSE)>>)

\* formatDate(date, fallback = 'Invalid date'): `${month} ${day}, ${year}`
formatDate(date) ==
    IF ~IsValidDate(date)
    THEN Display(<<Word("Invalid"), Word("date")>>)
    ELSE Display(<<Word(months[date.month + 1]), Num(Digits(date.day), TRUE), Num(Digits(date.year), FALSE)>>)

IsLeapYear(y) == (y % 4 = 0 /\ y % 100 # 0) \/ y % 400 = 0

\* the days of month m (0..11) of year y
DaysInMonth(y, m) ==
    IF m = 1 THEN (IF IsLeapYear(y) THEN 29 ELSE 28)
    ELSE IF m \in {3, 5, 8, 10} THEN 30
    ELSE 31

RECURSIVE RollOver(_, _, _, _)
\* the Date of the fields, a day outside the month being carried into the
\* months before or after
RollOver(y, m, d, h) ==
    IF d < 1
    THEN LET py == IF m = 0 THEN y - 1 ELSE y
             pm == IF m = 0 THEN 11 ELSE m - 1
         IN  RollOver(py, pm, d + DaysInMonth(py, pm), h)
    ELSE IF d > DaysInMonth(y, m)
    THEN RollOver(IF m = 11 THEN y + 1 ELSE y, IF m = 11 THEN 0 ELSE m + 1, d - DaysInMonth(y, m), h)
    ELSE MkDate(y, m, d, h)

\* new Date(year, month, day, hours, 0, 0): a year of 0..99 is a year of
\* the 1900s
NewDateOfFields(y, m, d, h) == RollOver(IF y \in 0..99 THEN 1900 + y ELSE y, m, d, h)

\* parseFormattedDate(dateStr): a Date at local noon, or Null
parseFormattedDate(dateStr) ==
    IF dateStr = Null \/ "tokens" \notin DOMAIN dateStr THEN Null
    ELSE IF Len(dateStr.tokens) # 3 THEN Null
    ELSE LET parts == dateStr.tokens
             month == monthMap(parts[1])
             day   == parseInt(parts[2])
             year  == parseInt(parts[3])
         IN  IF day = NaN \/ year = NaN \/ month = Null THEN Null
             ELSE NewDateOfFields(year.n, month.n, day.n, 12)

\* an isDateInRange that compares instants, the bounds being taken at their
\* own time of day
isDateInRange_ByInstant(date, startDate, endDate) ==
    IF date = Null THEN FALSE
    ELSE LET instant(x) == ((x.year * 12 + x.month) * 31 + x.day) * 24 + x.hours
         IN  /\ (startDate # Null => instant(date) >= instant(startDate))
             /\ (endDate # Null => instant(date) <= instant(endDate))

\* isDateInRange(date, startDate, endDate): inclusive, by calendar day
isDateInRange(date, startDate, endDate) ==
    IF date = Null THEN FALSE
    ELSE LET isAfterStart ==
                 \/ date.year > startDate.year
                 \/ (date.year = startDate.year /\ date.month > startDate.month)
                 \/ (date.year = startDate.year /\ date.month = startDate.month /\ date.day >= startDate.day)
             isBeforeEnd ==
                 \/ date.year < endDate.year
                 \/ (date.year = endDate.year /\ date.month < endDate.month)
                 \/ (date.year = endDate.year /\ date.month = endDate.month /\ date.day <= endDate.day)
         IN  /\ (startDate # Null => isAfterStart)
             /\ (endDate # Null => isBeforeEnd)

(***************************************************************************)
(* Strings of the search filter                                            *)
(***************************************************************************)
upperCase == <<"A", "B", "C", "D", "E", "F", "G", "H", "I", "J", "K", "L", "M", "N", "O", "P", "Q", "R", "S", "T", "U", "V", "W", "X", "Y", "Z">>

lowerCase == <<"a", "b", "c", "d", "e", "f", "g", "h", "i", "j", "k", "l", "m", "n", "o", "p", "q", "r", "s", "t", "u", "v", "w", "x", "y", "z">>

\* String.prototype.toLowerCase
toLowerCase(s) ==
    Str([i \in 1..Len(s.chars) |->
            IF \E k \in 1..26 : upperCase[k] = s.chars[i]
            THEN lowerCase[CHOOSE k \in 1..26 : upperCase[k] = s.chars[i]]
            ELSE s.chars[i]])

\* String.prototype.includes
includes(s, search) ==
    \E i \in 0..(Len(s.chars) - Len(search.chars)) :
        SubSeq(s.chars, i + 1, i + Len(search.chars)) = search.chars

(***************************************************************************)
(* Record Normalizer: the mapping of one raw reservation to a Transfer.    *)
(* The fields passengerCount, contactPhone, long addresses, vehicleType,   *)
(* notes, createdAt and price play no part in any operation of the hook    *)
(* and are left out of the Transfer.                                       *)
(***************************************************************************)
\* a translation that matches 'planned' whatever its case
mapStatusFromSalesforce_IgnoresCase(sfStatus) ==
    CASE sfStatus \in {Lit("Planned"), Lit("planned")} -> "planned"
      [] sfStatus \in {Lit("Driver Underway"), Lit("Driver Arrived"), Lit("Journey In Progress")} -> "pending"
      [] sfStatus = Lit("Completed") -> "completed"
      [] sfStatus = Lit("No Show") -> "cancelled"
      [] sfStatus = Lit("Cancelled with Costs") -> "cancelled-with-costs"
      [] OTHER -> "pending"

\* mapStatusFromSalesforce(sfStatus)
mapStatusFromSalesforce(sfStatus) ==
    CASE sfStatus = Lit("Planned") -> "planned"
      [] sfStatus \in {Lit("Driver Underway"), Lit("Driver Arrived"), Lit("Journey In Progress")} -> "pending"
      [] sfStatus = Lit("Completed") -> "completed"
      [] sfStatus = Lit("No Show") -> "cancelled"
      [] sfStatus = Lit("Cancelled with Costs") -> "cancelled-with-costs"
      [] OTHER -> "pending"

\* Date.prototype.toLocaleTimeString: the time of a valid Date, the string
\* "Invalid Date" of an invalid one.  It does not throw for either, so the
\* catch block that would leave pickupTime at its initial 'N/A' is never
\* entered.
toLocaleTimeString(date) == IF date = InvalidDate THEN Lit("Invalid Date") ELSE [time |-> date.hours]

\* reservation.X__c ? { latitude, longitude } : undefined
mapLocation(loc) == IF loc # Null THEN [latitude |-> loc.latitude, longitude |-> loc.longitude] ELSE Null

\* the callback of data.map; generated is the value of
\* Math.random().toString(36).substring(2) drawn for this record
mapReservation(reservation, generated) ==
    LET id == OrElse(reservation.Id, generated)
        pickupDateTime == NewDate(reservation.Pickup_Date_Time__c)
    IN  [ id               |-> id,
          reservationId    |-> reservation.Name,
          salesforceId     |-> reservation.Id,
          bookingReference |-> id,
          passengerName    |-> OrElse(reservation.Passenger_Name__c, Str(<<"G", "u", "e", "s", "t">>)),
          origin           |-> OrElse(reservation.Pickup_Resolved_Region__c,
                                      OrElse(reservation.Pickup_Address__c, Str(<<"N", "/", "A">>))),
          destination      |-> OrElse(reservation.Dropoff_Resolved_Region__c,
                                      OrElse(reservation.Dropoff_Address__c, Str(<<"N", "/", "A">>))),
          date             |-> formatDate(pickupDateTime),
          pickupTime       |-> toLocaleTimeString(pickupDateTime),
          flightNumber     |-> OrElse(reservation.Flight_Number__c, Str(<<>>)),
          status           |-> mapStatusFromSalesforce(reservation.Journey_Status__c),
          pickupLocation   |-> mapLocation(reservation.Pickup_Location__c),
          dropoffLocation  |-> mapLocation(reservation.Dropoff_Location__c) ]

\* data.map(...): one Transfer per raw record, in order
transformData(data, generated) == [i \in 1..Len(data) |-> mapReservation(data[i], generated[i])]

(***************************************************************************)
(* Filter Engine                                                           *)
(***************************************************************************)
\* a date filter that keeps a record whose date does not parse
dateFilter_KeepsUnparsed(transfer, range) ==
    LET transferDate == parseFormattedDate(transfer.date)
    IN  IF transferDate = Null THEN TRUE
        ELSE isDateInRange(transferDate, range.start, range.end)

\* the predicate of the date filter of applyFilters
dateFilter(transfer, range) ==
    LET transferDate == parseFormattedDate(transfer.date)
    IN  IF transferDate = Null THEN FALSE
        ELSE isDateInRange(transferDate, range.start, range.end)

\* a search filter that looks at the passenger name only
searchFilter_NameOnly(transfer, search) ==
    includes(toLowerCase(transfer.passengerName), search)

\* the predicate of the search filter of applyFilters
searchFilter(transfer, search) ==
    \/ includes(toLowerCase(transfer.passengerName), search)
    \/ includes(toLowerCase(transfer.reservationId), search)
    \/ includes(toLowerCase(transfer.bookingReference), search)
    \/ (Truthy(transfer.flightNumber) /\ includes(toLowerCase(transfer.flightNumber), search))
    \/ includes(toLowerCase(transfer.origin), search)
    \/ includes(toLowerCase(transfer.destination), search)

\* the fields the search filter reads, in the order of its || chain
searchFields == <<"passengerName", "reservationId", "bookingReference", "flightNumber", "origin", "destination">>

RECURSIVE searchThrowsFrom(_, _, _)
\* the || chain from its k-th field on calls toLowerCase of undefined: the
\* chain stops at the first field that matches, and flightNumber is read
\* only when it is truthy
searchThrowsFrom(transfer, search, k) ==
    IF k > Len(searchFields) THEN FALSE
    ELSE LET v == transfer[searchFields[k]]
         IN  IF searchFields[k] = "flightNumber" /\ ~Truthy(v) THEN searchThrowsFrom(transfer, search, k + 1)
             ELSE IF v = Null THEN TRUE
             ELSE IF includes(toLowerCase(v), search) THEN FALSE
             ELSE searchThrowsFrom(transfer, search, k + 1)

\* the predicate of the search filter throws a TypeError on this record
searchThrows(transfer, search) == searchThrowsFrom(transfer, search, 1)

\* applyFilters throws: the date filter catches what its predicate throws,
\* the search filter does not
applyFiltersThrows(all, range, term) ==
    LET inDate(t) == dateFilter(t, range)
        dated == IF range.start # Null \/ range.end # Null THEN SelectSeq(all, inDate) ELSE all
    IN  /\ Truthy(term)
        /\ \E k \in 1..Len(dated) : searchThrows(dated[k], toLowerCase(term))

\* an applyFilters whose search filter starts again from allTransfers
applyFilters_SearchOnAll(all, range, term) ==
    LET inDate(t) == dateFilter(t, range)
        matches(t) == searchFilter(t, toLowerCase(term))
        dated == IF range.start # Null \/ range.end # Null THEN SelectSeq(all, inDate) ELSE all
    IN  IF Truthy(term) THEN SelectSeq(all, matches) ELSE dated

\* the value applyFilters gives to setFilteredTransfers
applyFilters(all, range, term) ==
    LET inDate(t) == dateFilter(t, range)
        matches(t) == searchFilter(t, toLowerCase(term))
        dated == IF range.start # Null \/ range.end # Null THEN SelectSeq(all, inDate) ELSE all
    IN  IF Truthy(term) THEN SelectSeq(dated, matches) ELSE dated

(***************************************************************************)
(* Inputs of the model                                                     *)
(***************************************************************************)
\* the day the hook is constructed, and the day after
Today == MkDate(2025, 3, 22, 10)

Tomorrow == MkDate(2025, 3, 23, 10)

\* the ranges the date picker hands to setDateRange: it starts from the
\* default range and clears or sets either bound
DateRanges == [start : {Null, Today}, end : {Null, Tomorrow}]

StatusFilters == {"Planned", "all"}

SearchTerms == {Str(<<>>), Str(<<"S", "m">>)}

\* the user objects the auth context supplies
Users == {Null, [token |-> "tok"]}

\* ids Math.random produces for records without an Id
GeneratedIds == {Str(<<"g", "1">>)}

\* raw reservations the record source answers with
RawPool ==
    { [ Id |-> Str(<<"t", "1">>), Name |-> Str(<<"R", "1">>),
        Passenger_Name__c |-> Str(<<"J", " ", "S", "m", "i", "t", "h">>),
        Journey_Status__c |-> Lit("Planned"),
        Pickup_Date_Time__c |-> MkDate(2025, 3, 22, 9),
        Pickup_Resolved_Region__c |-> Str(<<"B", "J", "V">>), Pickup_Address__c |-> Null,
        Dropoff_Resolved_Region__c |-> Null, Dropoff_Address__c |-> Str(<<"Y", "a", "l", "i">>),
        Flight_Number__c |-> Str(<<"T", "K", "1">>),
        Pickup_Location__c |-> [latitude |-> Number(37), longitude |-> Number(27)], Dropoff_Location__c |-> Null ],
      [ Id |-> Str(<<"t", "2">>), Name |-> Str(<<"R", "2">>),
        Passenger_Name__c |-> Null,
        Journey_Status__c |-> Lit("Driver Arrived"),
        Pickup_Date_Time__c |-> MkDate(2025, 3, 20, 14),
        Pickup_Resolved_Region__c |-> Null, Pickup_Address__c |-> Null,
        Dropoff_Resolved_Region__c |-> Str(<<"B", "J", "V">>), Dropoff_Address__c |-> Null,
        Flight_Number__c |-> Null,
        Pickup_Location__c |-> [latitude |-> Number(37), longitude |-> Null], Dropoff_Location__c |-> Null ] }

\* the bodies { data } of an ok response: up to MaxRecords distinct raw records
RecordBodies ==
    UNION { { d \in [1..n -> RawPool] : \A i, j \in 1..n : i # j => d[i] # d[j] } : n \in 0..MaxRecords }

\* the bodies of an ok response of the aggregate source
SummaryBodies ==
    { [status |-> "success", data |-> [totalRecords |-> Number(2), totalRevenue |-> Number(100), accountName |-> Lit("Acme")]],
      [status |-> "success", data |-> Null],
      [status |-> "error", data |-> Null] }

\* the ways a request ends without a usable body
Failures == {"http", "network", "malformed"}

(***************************************************************************)
(* State                                                                   *)
(***************************************************************************)
VARIABLES
    user,                 \* useAuth().user
    initialLoadComplete,  \* ref
    requestInProgress,    \* ref
    allTransfers, filteredTransfers, isLoading, error,
    summaryData, isSummaryLoading,
    searchTerm, statusFilter, dateRange,
    selectedTransfer, isDrawerOpen,
    currentPage,          \* state of TransfersTable
    recordRequests,       \* requests to /transfers awaiting their response, oldest first
    summaryRequests,      \* requests to /transfers/summary awaiting their response, oldest first
    lastEvent,            \* history: the event of the last step and the network calls it made
    lastRecordQuery,      \* history: the query of the last request made to /transfers
    renderError,          \* the error an effect threw, which unmounts the tree; Null while mounted
    parseInput,           \* dateUtils on its own: the argument of parseFormattedDate
    parseResult,          \*   what parseFormattedDate returned
    formatResult,         \*   what formatDate returned for that
    rangeDate, rangeStart, rangeEnd,  \*   the arguments of isDateInRange
    rangeResult           \*   what isDateInRange returned

vars == << user, initialLoadComplete, requestInProgress, allTransfers, filteredTransfers,
           isLoading, error, summaryData, isSummaryLoading, searchTerm, statusFilter,
           dateRange, selectedTransfer, isDrawerOpen, currentPage, recordRequests,
           summaryRequests, lastEvent, lastRecordQuery, renderError, parseInput, parseResult,
           formatResult, rangeDate, rangeStart, rangeEnd, rangeResult >>

\* the variables of the date utilities called on their own
utilVars == << parseInput, parseResult, formatResult, rangeDate, rangeStart, rangeEnd, rangeResult >>

\* the value of a variable no call has set
Unset == [unset |-> TRUE]

\* no date utility is called on its own
UtilUnset ==
    /\ parseInput = Unset
    /\ parseResult = Unset
    /\ formatResult = Unset
    /\ rangeDate = Unset
    /\ rangeStart = Unset
    /\ rangeEnd = Unset
    /\ rangeResult = Unset

\* the state of the hook and of the table as constructed
HookInit ==
    /\ user = Null
    /\ initialLoadComplete = FALSE
    /\ requestInProgress = FALSE
    /\ allTransfers = <<>>
    /\ filteredTransfers = <<>>
    /\ isLoading = TRUE
    /\ error = Null
    /\ summaryData = Null
    /\ isSummaryLoading = TRUE
    /\ searchTerm = Str(<<>>)
    /\ statusFilter = "Planned"
    /\ dateRange = [start |-> Today, end |-> Tomorrow]
    /\ selectedTransfer = Null
    /\ isDrawerOpen = FALSE
    /\ currentPage = 1
    /\ recordRequests = <<>>
    /\ summaryRequests = <<>>
    /\ lastEvent = [name |-> "mount", busy |-> FALSE, records |-> 0, summaries |-> 0]
    /\ lastRecordQuery = Null
    /\ renderError = Null

Init == HookInit /\ UtilUnset

\* the variables of the hook and of the table
hookVars == << user, initialLoadComplete, requestInProgress, allTransfers, filteredTransfers,
               isLoading, error, summaryData, isSummaryLoading, searchTerm, statusFilter,
               dateRange, selectedTransfer, isDrawerOpen, currentPage, recordRequests,
               summaryRequests, lastEvent, lastRecordQuery, renderError >>

(***************************************************************************)
(* The two fetch functions, as functions of the part of the state they     *)
(* read and write up to their first await.                                 *)
(***************************************************************************)
\* user?.token
HasToken(u) == u # Null /\ u.token # ""

\* Date.prototype.toISOString of a valid Date
toISOString(d) == [iso |-> d]

\* query parameters that carry each bound of the range on its own
queryParams_EachBound(status, range) ==
    [ status     |-> IF status # "all" THEN Lit(status) ELSE Null,
      start_date |-> IF range.start # Null THEN toISOString(range.start) ELSE Null,
      end_date   |-> IF range.end # Null THEN toISOString(range.end) ELSE Null ]

\* the URLSearchParams both fetch functions build
queryParams(status, range) ==
    [ status     |-> IF status # "all" THEN Lit(status) ELSE Null,
      start_date |-> IF range.start # Null /\ range.end # Null THEN toISOString(range.start) ELSE Null,
      end_date   |-> IF range.start # Null /\ range.end # Null THEN toISOString(range.end) ELSE Null ]

\* the call of fetch(url, { method: 'GET', headers })
request(path, u, status, range) ==
    [method |-> "GET", path |-> path, authorization |-> u.token, params |-> queryParams(status, range)]

\* the state the fetch functions work on
FetchState ==
    [ requestInProgress |-> requestInProgress, isLoading |-> isLoading, error |-> error,
      isSummaryLoading |-> isSummaryLoading, summaryData |-> summaryData,
      recordRequests |-> recordRequests, summaryRequests |-> summaryRequests ]

\* fetchTransfers without the check of requestInProgress
fetchTransfers_NoGuard(f, u, status, range) ==
    IF ~HasToken(u) THEN f
    ELSE [f EXCEPT !.requestInProgress = TRUE,
                   !.isLoading = TRUE,
                   !.error = Null,
                   !.recordRequests = Append(@, request("/transfers", u, status, range))]

\* fetchTransfers() up to the await of fetch
fetchTransfers(f, u, status, range) ==
    IF f.requestInProgress THEN f
    ELSE IF ~HasToken(u) THEN f
    ELSE [f EXCEPT !.requestInProgress = TRUE,
                   !.isLoading = TRUE,
                   !.error = Null,
                   !.recordRequests = Append(@, request("/transfers", u, status, range))]

\* fetchSummaryData that starts loading before it looks for the token
fetchSummaryData_LoadsFirst(f, u, status, range) ==
    IF ~HasToken(u) THEN [f EXCEPT !.isSummaryLoading = TRUE, !.summaryData = Null]
    ELSE [f EXCEPT !.isSummaryLoading = TRUE,
                   !.summaryRequests = Append(@, request("/transfers/summary", u, status, range))]

\* fetchSummaryData() up to the await of fetch
fetchSummaryData(f, u, status, range) ==
    IF ~HasToken(u) THEN f
    ELSE [f EXCEPT !.isSummaryLoading = TRUE,
                   !.summaryRequests = Append(@, request("/transfers/summary", u, status, range))]

\* the first effect (deps [user]) then the second (deps: the filters and the
\* two fetch functions), run after a render in which a dep of each changed
initialLoadEffect(f, loaded, u, status, range) ==
    IF HasToken(u) /\ ~loaded
    THEN fetchSummaryData(fetchTransfers(f, u, status, range), u, status, range)
    ELSE f

filterChangeEffect(f, loaded, u, status, range) ==
    IF ~loaded THEN f
    ELSE fetchSummaryData(fetchTransfers(f, u, status, range), u, status, range)

\* the event of a step that runs a fetch function: its name, whether a record
\* fetch was outstanding when it arrived, and the number of requests of either
\* kind it made
Event(name, f) ==
    [ name      |-> name,
      busy      |-> recordRequests # <<>>,
      records   |-> Len(f.recordRequests) - Len(recordRequests),
      summaries |-> Len(f.summaryRequests) - Len(summaryRequests) ]

\* the assignment of the fetch state the event `name` leaves to the variables,
\* within the bounds
SetFetchState(name, f) ==
    /\ Len(f.recordRequests) <= MaxRecordInFlight
    /\ Len(f.summaryRequests) <= MaxSummaryInFlight
    /\ lastEvent' = Event(name, f)
    /\ lastRecordQuery' = IF Len(f.recordRequests) > Len(recordRequests)
                          THEN f.recordRequests[Len(f.recordRequests)].params
                          ELSE lastRecordQuery
    /\ requestInProgress' = f.requestInProgress
    /\ isLoading' = f.isLoading
    /\ error' = f.error
    /\ isSummaryLoading' = f.isSummaryLoading
    /\ summaryData' = f.summaryData
    /\ recordRequests' = f.recordRequests
    /\ summaryRequests' = f.summaryRequests

\* a third effect whose deps leave out allTransfers
Derive_IgnoresRecords ==
    /\ renderError = Null
    /\ IF statusFilter' # statusFilter \/ dateRange' # dateRange \/ searchTerm' # searchTerm
       THEN IF applyFiltersThrows(allTransfers', dateRange', searchTerm')
            THEN /\ renderError' = Lit("TypeError")
                 /\ filteredTransfers' = filteredTransfers
            ELSE /\ renderError' = Null
                 /\ filteredTransfers' = applyFilters(allTransfers', dateRange', searchTerm')
       ELSE UNCHANGED << renderError, filteredTransfers >>

\* the third effect: applyFilters() after every render in which one of its
\* deps [allTransfers, statusFilter, dateRange, searchTerm] changed.  The
\* component is mounted (no effect has thrown); when applyFilters throws,
\* setFilteredTransfers is not reached and the error leaves the effect.
Derive ==
    /\ renderError = Null
    /\ IF \/ allTransfers' # allTransfers
          \/ statusFilter' # statusFilter
          \/ dateRange' # dateRange
          \/ searchTerm' # searchTerm
       THEN IF applyFiltersThrows(allTransfers', dateRange', searchTerm')
            THEN /\ renderError' = Lit("TypeError")
                 /\ filteredTransfers' = filteredTransfers
            ELSE /\ renderError' = Null
                 /\ filteredTransfers' = applyFilters(allTransfers', dateRange', searchTerm')
       ELSE UNCHANGED << renderError, filteredTransfers >>

viewVars == << selectedTransfer, isDrawerOpen, currentPage >>

fetchVars == << requestInProgress, isLoading, error, isSummaryLoading, summaryData,
                recordRequests, summaryRequests, lastRecordQuery >>

\* the record of an event that calls neither fetch function
NoFetch(name) == lastEvent' = [name |-> name, busy |-> FALSE, records |-> 0, summaries |-> 0]

(***************************************************************************)
(* Events that can start a fetch                                           *)
(***************************************************************************)
\* the auth context supplies another user object: both effects run
SetUser(u) ==
    /\ u # user
    /\ user' = u
    /\ LET f1 == initialLoadEffect(FetchState, initialLoadComplete, u, statusFilter, dateRange)
           loaded == initialLoadComplete \/ HasToken(u)
           f2 == filterChangeEffect(f1, loaded, u, statusFilter, dateRange)
       IN  /\ initialLoadComplete' = loaded
           /\ SetFetchState("setUser", f2)
    /\ UNCHANGED << allTransfers, searchTerm, statusFilter, dateRange, viewVars >>
    /\ Derive
    /\ UNCHANGED utilVars

\* setStatusFilter(s) with another status: the second effect runs
SetStatusFilter(s) ==
    /\ s # statusFilter
    /\ statusFilter' = s
    /\ SetFetchState("setStatusFilter",
                     filterChangeEffect(FetchState, initialLoadComplete, user, s, dateRange))
    /\ UNCHANGED << user, initialLoadComplete, allTransfers, searchTerm, dateRange, viewVars >>
    /\ Derive
    /\ UNCHANGED utilVars

\* a setDateRange that filters the full record set in place
SetDateRange_FiltersInPlace(r) ==
    /\ dateRange' = r
    /\ SetFetchState("setDateRange",
                     filterChangeEffect(FetchState, initialLoadComplete, user, statusFilter, r))
    /\ allTransfers' = applyFilters(allTransfers, r, searchTerm)
    /\ UNCHANGED << user, initialLoadComplete, searchTerm, statusFilter, viewVars >>
    /\ Derive
    /\ UNCHANGED utilVars

\* setDateRange(r): r is a new object, so fetchTransfers is a new function
\* and the second effect runs even when the bounds are the same
SetDateRange(r) ==
    /\ dateRange' = r
    /\ SetFetchState("setDateRange",
                     filterChangeEffect(FetchState, initialLoadComplete, user, statusFilter, r))
    /\ UNCHANGED << user, initialLoadComplete, allTransfers, searchTerm, statusFilter, viewVars >>
    /\ Derive
    /\ UNCHANGED utilVars

\* a refresh that keeps the fetchTransfers of the first render
RefreshTransfers_Stale ==
    /\ SetFetchState("refresh",
                     fetchTransfers(FetchState, user, "Planned", [start |-> Today, end |-> Tomorrow]))
    /\ UNCHANGED << user, initialLoadComplete, allTransfers, searchTerm, statusFilter, dateRange, viewVars >>
    /\ Derive
    /\ UNCHANGED utilVars

\* refreshTransfers(), which is fetchTransfers of the last render
RefreshTransfers ==
    /\ SetFetchState("refresh", fetchTransfers(FetchState, user, statusFilter, dateRange))
    /\ UNCHANGED << user, initialLoadComplete, allTransfers, searchTerm, statusFilter, dateRange, viewVars >>
    /\ Derive
    /\ UNCHANGED utilVars

(***************************************************************************)
(* Completion of the requests: fetchTransfers and fetchSummaryData from    *)
(* their await to their end.                                               *)
(***************************************************************************)
Remove(seq, i) == SubSeq(seq, 1, i - 1) \o SubSeq(seq, i + 1, Len(seq))

\* a success path that adds the response to the records already held
FetchTransfersOk_Merges(i, data, generated) ==
    /\ i \in 1..Len(recordRequests)
    /\ recordRequests' = Remove(recordRequests, i)
    /\ allTransfers' = allTransfers \o transformData(data, generated)
    /\ isLoading' = FALSE
    /\ requestInProgress' = FALSE
    /\ UNCHANGED << user, initialLoadComplete, error, summaryData, isSummaryLoading, searchTerm,
                    statusFilter, dateRange, viewVars, summaryRequests, lastRecordQuery >>
    /\ Derive
    /\ UNCHANGED utilVars
    /\ NoFetch("fetchOk")

\* the response is ok and its body has a data array: lines 245-306, finally
FetchTransfersOk(i, data, generated) ==
    /\ i \in 1..Len(recordRequests)
    /\ recordRequests' = Remove(recordRequests, i)
    /\ allTransfers' = transformData(data, generated)
    /\ isLoading' = FALSE
    /\ requestInProgress' = FALSE
    /\ UNCHANGED << user, initialLoadComplete, error, summaryData, isSummaryLoading, searchTerm,
                    statusFilter, dateRange, viewVars, summaryRequests, lastRecordQuery >>
    /\ Derive
    /\ UNCHANGED utilVars
    /\ NoFetch("fetchOk")

\* a catch block that leaves isLoading as the start of the fetch set it
FetchTransfersFailed_KeepsLoading(i, failure) ==
    /\ i \in 1..Len(recordRequests)
    /\ failure \in Failures
    /\ recordRequests' = Remove(recordRequests, i)
    /\ error' = Lit("Failed to fetch transfers. Please try again later.")
    /\ requestInProgress' = FALSE
    /\ UNCHANGED << user, initialLoadComplete, allTransfers, isLoading, summaryData, isSummaryLoading,
                    searchTerm, statusFilter, dateRange, viewVars, summaryRequests, lastRecordQuery >>
    /\ Derive
    /\ UNCHANGED utilVars
    /\ NoFetch("fetchFailed")

\* the catch block without the finally: the flag stays set
FetchTransfersFailed_NoRelease(i, failure) ==
    /\ i \in 1..Len(recordRequests)
    /\ failure \in Failures
    /\ recordRequests' = Remove(recordRequests, i)
    /\ error' = Lit("Failed to fetch transfers. Please try again later.")
    /\ isLoading' = FALSE
    /\ UNCHANGED << user, initialLoadComplete, requestInProgress, allTransfers, summaryData,
                    isSummaryLoading, searchTerm, statusFilter, dateRange, viewVars,
                    summaryRequests, lastRecordQuery >>
    /\ Derive
    /\ UNCHANGED utilVars
    /\ NoFetch("fetchFailed")

\* a catch block that also empties the record set
FetchTransfersFailed_Clears(i, failure) ==
    /\ i \in 1..Len(recordRequests)
    /\ failure \in Failures
    /\ recordRequests' = Remove(recordRequests, i)
    /\ allTransfers' = <<>>
    /\ error' = Lit("Failed to fetch transfers. Please try again later.")
    /\ isLoading' = FALSE
    /\ requestInProgress' = FALSE
    /\ UNCHANGED << user, initialLoadComplete, summaryData, isSummaryLoading, searchTerm,
                    statusFilter, dateRange, viewVars, summaryRequests, lastRecordQuery >>
    /\ Derive
    /\ UNCHANGED utilVars
    /\ NoFetch("fetchFailed")

\* fetch rejects, the response is not ok, or the body has no data array:
\* the catch block, finally
FetchTransfersFailed(i, failure) ==
    /\ i \in 1..Len(recordRequests)
    /\ failure \in Failures
    /\ recordRequests' = Remove(recordRequests, i)
    /\ error' = Lit("Failed to fetch transfers. Please try again later.")
    /\ isLoading' = FALSE
    /\ requestInProgress' = FALSE
    /\ UNCHANGED << user, initialLoadComplete, allTransfers, summaryData, isSummaryLoading, searchTerm,
                    statusFilter, dateRange, viewVars, summaryRequests, lastRecordQuery >>
    /\ Derive
    /\ UNCHANGED utilVars
    /\ NoFetch("fetchFailed")

\* Intl.NumberFormat('en-US', { style: 'currency', currency: 'EUR' }).format
formatCurrency(n) == [eur |-> n]

\* x || 0 of the summary fields
OrZero(v) == IF v = Null \/ v = Number(0) THEN Number(0) ELSE v

\* the object handed to setSummaryData for a body, Null for an invalid one
newSummaryData(result) ==
    IF result.status = "success" /\ result.data # Null
    THEN [ totalRecords |-> OrZero(result.data.totalRecords),
           totalRevenue |-> OrZero(result.data.totalRevenue),
           formattedTotalRevenue |-> formatCurrency(OrZero(result.data.totalRevenue)),
           accountName |-> OrElse(result.data.accountName, Lit("")) ]
    ELSE Null

\* the response is ok: lines 144-178, finally
FetchSummaryOk(i, result) ==
    /\ i \in 1..Len(summaryRequests)
    /\ summaryRequests' = Remove(summaryRequests, i)
    /\ summaryData' = newSummaryData(result)
    /\ isSummaryLoading' = FALSE
    /\ UNCHANGED << user, initialLoadComplete, requestInProgress, allTransfers, isLoading, error,
                    searchTerm, statusFilter, dateRange, viewVars, recordRequests, lastRecordQuery >>
    /\ Derive
    /\ UNCHANGED utilVars
    /\ NoFetch(IF newSummaryData(result) = Null THEN "summaryFailed" ELSE "summaryOk")

\* a catch block that keeps the summary it has
FetchSummaryFailed_KeepsStale(i, failure) ==
    /\ i \in 1..Len(summaryRequests)
    /\ failure \in Failures
    /\ summaryRequests' = Remove(summaryRequests, i)
    /\ isSummaryLoading' = FALSE
    /\ UNCHANGED << user, initialLoadComplete, requestInProgress, allTransfers, isLoading, error,
                    summaryData, searchTerm, statusFilter, dateRange, viewVars, recordRequests,
                    lastRecordQuery >>
    /\ Derive
    /\ UNCHANGED utilVars
    /\ NoFetch("summaryFailed")

\* fetch rejects, the response is not ok or its body is not JSON: catch, finally
FetchSummaryFailed(i, failure) ==
    /\ i \in 1..Len(summaryRequests)
    /\ failure \in Failures
    /\ summaryRequests' = Remove(summaryRequests, i)
    /\ summaryData' = Null
    /\ isSummaryLoading' = FALSE
    /\ UNCHANGED << user, initialLoadComplete, requestInProgress, allTransfers, isLoading, error,
                    searchTerm, statusFilter, dateRange, viewVars, recordRequests, lastRecordQuery >>
    /\ Derive
    /\ UNCHANGED utilVars
    /\ NoFetch("summaryFailed")

(***************************************************************************)
(* View state                                                              *)
(***************************************************************************)
\* a search term that is a dep of the fetch functions: the second effect runs
SetSearchTerm_Refetches(t) ==
    /\ t # searchTerm
    /\ searchTerm' = t
    /\ LET f == filterChangeEffect(FetchState, initialLoadComplete, user, statusFilter, dateRange)
       IN  /\ Len(f.recordRequests) <= MaxRecordInFlight
           /\ Len(f.summaryRequests) <= MaxSummaryInFlight
           /\ requestInProgress' = f.requestInProgress
           /\ isLoading' = f.isLoading
           /\ error' = f.error
           /\ isSummaryLoading' = f.isSummaryLoading
           /\ summaryData' = f.summaryData
           /\ recordRequests' = f.recordRequests
           /\ summaryRequests' = f.summaryRequests
    /\ UNCHANGED << user, initialLoadComplete, allTransfers, statusFilter, dateRange, viewVars,
                    lastRecordQuery >>
    /\ Derive
    /\ UNCHANGED utilVars
    /\ NoFetch("setSearchTerm")

\* a search that closes the detail of a record it filters out
SetSearchTerm_DropsSelection(t) ==
    /\ t # searchTerm
    /\ searchTerm' = t
    /\ UNCHANGED << user, initialLoadComplete, allTransfers, statusFilter, dateRange, currentPage, fetchVars >>
    /\ Derive
    /\ UNCHANGED utilVars
    /\ LET visible == \E k \in 1..Len(filteredTransfers') :
                          selectedTransfer # Null /\ filteredTransfers'[k].id = selectedTransfer.id
       IN  /\ selectedTransfer' = IF visible THEN selectedTransfer ELSE Null
           /\ isDrawerOpen' = (isDrawerOpen /\ visible)
    /\ NoFetch("setSearchTerm")

\* setSearchTerm(t) with another term: only applyFilters depends on it
SetSearchTerm(t) ==
    /\ t # searchTerm
    /\ searchTerm' = t
    /\ UNCHANGED << user, initialLoadComplete, allTransfers, statusFilter, dateRange, viewVars, fetchVars >>
    /\ Derive
    /\ UNCHANGED utilVars
    /\ NoFetch("setSearchTerm")

\* allTransfers.find(t => t.id === id) || null
find(all, id) ==
    IF \E k \in 1..Len(all) : all[k].id = id
    THEN all[CHOOSE k \in 1..Len(all) : all[k].id = id /\ \A j \in 1..(k - 1) : all[j].id # id]
    ELSE Null

handleViewTransfer(id) ==
    /\ selectedTransfer' = find(allTransfers, id)
    /\ isDrawerOpen' = TRUE
    /\ UNCHANGED << user, initialLoadComplete, allTransfers, searchTerm, statusFilter, dateRange,
                    currentPage, fetchVars >>
    /\ Derive
    /\ UNCHANGED utilVars
    /\ NoFetch("viewTransfer")

\* a markCompleted that marks every record of the full set
handleMarkCompleted_AllRecords(id) ==
    /\ allTransfers' = [k \in 1..Len(allTransfers) |-> [allTransfers[k] EXCEPT !.status = "completed"]]
    /\ selectedTransfer' = IF selectedTransfer # Null /\ selectedTransfer.id = id
                           THEN [selectedTransfer EXCEPT !.status = "completed"]
                           ELSE selectedTransfer
    /\ isDrawerOpen' = FALSE
    /\ UNCHANGED << user, initialLoadComplete, searchTerm, statusFilter, dateRange, currentPage, fetchVars >>
    /\ Derive
    /\ UNCHANGED utilVars
    /\ NoFetch("markCompleted")

\* a markCompleted that leaves the drawer as it is
handleMarkCompleted_KeepsDrawer(id) ==
    /\ allTransfers' = [k \in 1..Len(allTransfers) |->
                           IF allTransfers[k].id = id
                           THEN [allTransfers[k] EXCEPT !.status = "completed"]
                           ELSE allTransfers[k]]
    /\ selectedTransfer' = IF selectedTransfer # Null /\ selectedTransfer.id = id
                           THEN [selectedTransfer EXCEPT !.status = "completed"]
                           ELSE selectedTransfer
    /\ UNCHANGED << user, initialLoadComplete, searchTerm, statusFilter, dateRange, currentPage,
                    isDrawerOpen, fetchVars >>
    /\ Derive
    /\ UNCHANGED utilVars
    /\ NoFetch("markCompleted")

handleMarkCompleted(id) ==
    /\ allTransfers' = [k \in 1..Len(allTransfers) |->
                           IF allTransfers[k].id = id
                           THEN [allTransfers[k] EXCEPT !.status = "completed"]
                           ELSE allTransfers[k]]
    /\ selectedTransfer' = IF selectedTransfer # Null /\ selectedTransfer.id = id
                           THEN [selectedTransfer EXCEPT !.status = "completed"]
                           ELSE selectedTransfer
    /\ isDrawerOpen' = FALSE
    /\ UNCHANGED << user, initialLoadComplete, searchTerm, statusFilter, dateRange, currentPage, fetchVars >>
    /\ Derive
    /\ UNCHANGED utilVars
    /\ NoFetch("markCompleted")

SetIsDrawerOpen(b) ==
    /\ b # isDrawerOpen
    /\ isDrawerOpen' = b
    /\ UNCHANGED << user, initialLoadComplete, allTransfers, searchTerm, statusFilter, dateRange,
                    selectedTransfer, currentPage, fetchVars >>
    /\ Derive
    /\ UNCHANGED utilVars
    /\ NoFetch("setIsDrawerOpen")

(***************************************************************************)
(* Pagination of TransfersTable                                            *)
(***************************************************************************)
itemsPerPage == 25

\* Math.ceil(transfers.length / itemsPerPage)
totalPages(transfers) == (Len(transfers) + itemsPerPage - 1) \div itemsPerPage

handlePreviousPage ==
    /\ currentPage' = IF currentPage > 1 THEN currentPage - 1 ELSE currentPage
    /\ UNCHANGED << user, initialLoadComplete, allTransfers, searchTerm, statusFilter, dateRange,
                    selectedTransfer, isDrawerOpen, fetchVars >>
    /\ Derive
    /\ UNCHANGED utilVars
    /\ NoFetch("previousPage")

\* a next page that goes round to the first page after the last
handleNextPage_Wraps ==
    /\ currentPage' = IF currentPage < totalPages(filteredTransfers) THEN currentPage + 1 ELSE 1
    /\ UNCHANGED << user, initialLoadComplete, allTransfers, searchTerm, statusFilter, dateRange,
                    selectedTransfer, isDrawerOpen, fetchVars >>
    /\ Derive
    /\ UNCHANGED utilVars
    /\ NoFetch("nextPage")

handleNextPage ==
    /\ currentPage' = IF currentPage < totalPages(filteredTransfers) THEN currentPage + 1 ELSE currentPage
    /\ UNCHANGED << user, initialLoadComplete, allTransfers, searchTerm, statusFilter, dateRange,
                    selectedTransfer, isDrawerOpen, fetchVars >>
    /\ Derive
    /\ UNCHANGED utilVars
    /\ NoFetch("nextPage")

(***************************************************************************)
(* Specifications                                                          *)
(***************************************************************************)
\* the ids a caller passes to viewTransfer and markCompleted
Ids == { allTransfers[k].id : k \in 1..Len(allTransfers) } \cup { Str(<<"t", "9">>) }

\* the events of the Fetch Coordinator
Next ==
    \/ \E u \in Users : SetUser(u)
    \/ \E s \in StatusFilters : SetStatusFilter(s)
    \/ \E r \in DateRanges : SetDateRange(r)
    \/ RefreshTransfers
    \/ \E i \in 1..MaxRecordInFlight, data \in RecordBodies :
           \E generated \in [1..Len(data) -> GeneratedIds] : FetchTransfersOk(i, data, generated)
    \/ \E i \in 1..MaxRecordInFlight, failure \in Failures : FetchTransfersFailed(i, failure)
    \/ \E i \in 1..MaxSummaryInFlight, result \in SummaryBodies : FetchSummaryOk(i, result)
    \/ \E i \in 1..MaxSummaryInFlight, failure \in Failures : FetchSummaryFailed(i, failure)

Spec == Init /\ [][Next]_vars

\* the date picker re-submits the range it was given, or is reset
ViewDateRanges == { [start |-> Today, end |-> Tomorrow], [start |-> Null, end |-> Null] }

\* every event of the hook and of the table, the status filter being left as constructed
ViewNext ==
    \/ \E u \in Users : SetUser(u)
    \/ \E r \in ViewDateRanges : SetDateRange(r)
    \/ RefreshTransfers
    \/ \E i \in 1..MaxRecordInFlight, data \in RecordBodies :
           \E generated \in [1..Len(data) -> GeneratedIds] : FetchTransfersOk(i, data, generated)
    \/ \E i \in 1..MaxRecordInFlight, failure \in Failures : FetchTransfersFailed(i, failure)
    \/ \E i \in 1..MaxSummaryInFlight, result \in SummaryBodies : FetchSummaryOk(i, result)
    \/ \E i \in 1..MaxSummaryInFlight, failure \in Failures : FetchSummaryFailed(i, failure)
    \/ \E t \in SearchTerms : SetSearchTerm(t)
    \/ \E id \in Ids : handleViewTransfer(id)
    \/ \E id \in Ids : handleMarkCompleted(id)
    \/ \E b \in BOOLEAN : SetIsDrawerOpen(b)
    \/ handlePreviousPage
    \/ handleNextPage

ViewSpec == Init /\ [][ViewNext]_vars

(***************************************************************************)
(* Claims about the Fetch Coordinator                                      *)
(***************************************************************************)
\* no request of either kind is outstanding
Quiescent == recordRequests = <<>> /\ summaryRequests = <<>>

\* the events that call fetchTransfers
Triggers == {"setUser", "setStatusFilter", "setDateRange", "refresh"}

\* C1: a change of the status filter or of the date range made while a record
\* fetch is in flight is not missed: with a credential available, once no
\* request is outstanding the last request made to the record source carried
\* the current status and date range.
C1_FilterChangeNotMissed ==
    (HasToken(user) /\ Quiescent /\ lastRecordQuery # Null)
        => lastRecordQuery = queryParams(statusFilter, dateRange)

\* the state part of C2: at most one record fetch is in flight, the flag being
\* set exactly while it is; and an event that calls fetchTransfers while one is in flight makes
\* no request to the record source and leaves the state of the record fetch
\* as it is (a refresh leaves the whole state as it is).
C2_OneInFlight ==
    /\ Len(recordRequests) <= 1
    /\ requestInProgress <=> recordRequests # <<>>
    /\ (lastEvent.name \in Triggers /\ lastEvent.busy) => lastEvent.records = 0

\* the step part of C2: a trigger that arrives while a fetch is in flight
\* leaves the record fetch as it is, and a refresh leaves everything as it is
C2_TriggerDropped ==
    [][ /\ (requestInProgress /\ lastEvent'.name \in Triggers)
            => UNCHANGED << recordRequests, requestInProgress, isLoading, error, allTransfers,
                            lastRecordQuery >>
        /\ (requestInProgress /\ lastEvent'.name = "refresh")
            => UNCHANGED << user, initialLoadComplete, requestInProgress, allTransfers,
                            filteredTransfers, isLoading, error, summaryData, isSummaryLoading,
                            searchTerm, statusFilter, dateRange, selectedTransfer, isDrawerOpen,
                            currentPage, recordRequests, summaryRequests, lastRecordQuery >> ]_vars

C3_NeverStuck ==
    /\ requestInProgress => recordRequests # <<>>
    /\ lastEvent.name \in {"fetchOk", "fetchFailed"} => ~requestInProgress
    /\ (lastEvent.name = "refresh" /\ ~lastEvent.busy /\ HasToken(user)) => lastEvent.records = 1

\* C3: the in-flight flag is false after every completion of a record fetch,
\* is never set with nothing outstanding, and a later refresh with a
\* credential makes a new request.
C3_FlagReleased ==
    []C3_NeverStuck /\ [][Len(recordRequests') < Len(recordRequests) => ~requestInProgress']_vars

\* C3 witness: the first record fetch has completed without bringing a record,
\* the flag was released, and the refresh that followed made a request
C3_Witness ==
    /\ lastEvent = [name |-> "refresh", busy |-> FALSE, records |-> 1, summaries |-> 0]
    /\ allTransfers = <<>>
    /\ requestInProgress
    /\ Len(recordRequests) = 1

\* a step that ends a record fetch in the catch block
FetchFailedStep == \E i \in 1..MaxRecordInFlight, failure \in Failures : FetchTransfersFailed(i, failure)

\* a non-empty string
NonEmptyString(v) == v # Null /\ v # Lit("") /\ v # Str(<<>>)

\* C4: a record fetch that fails leaves the full record set as it was, makes
\* error a non-empty string and isLoading false.
C4_FailureKeepsRecords ==
    [][FetchFailedStep => /\ allTransfers' = allTransfers
                          /\ NonEmptyString(error')
                          /\ isLoading' = FALSE]_vars

\* C4 witness: a fetch has failed after an earlier one had brought records
C4_Witness ==
    /\ lastEvent.name = "fetchFailed"
    /\ allTransfers # <<>>
    /\ error # Null
    /\ ~isLoading

\* C5: a record fetch that succeeds makes the full record set the normalized
\* images of the records of its response, one per record and in order, and
\* leaves error null.
C5_SuccessReplacesRecords ==
    [][\A i \in 1..MaxRecordInFlight, data \in RecordBodies :
         \A generated \in [1..Len(data) -> GeneratedIds] :
            FetchTransfersOk(i, data, generated)
                => /\ Len(allTransfers') = Len(data)
                   /\ \A k \in 1..Len(data) : allTransfers'[k] = mapReservation(data[k], generated[k])
                   /\ error' = Null]_vars

\* C5 witness: a fetch has succeeded and brought records
C5_Witness ==
    /\ lastEvent.name = "fetchOk"
    /\ allTransfers # <<>>
    /\ error = Null
    /\ ~isLoading

\* C6 as claimed: every refresh made with a credential available makes a
\* request to the record source with the current status and date range,
\* whether or not a record fetch is in flight.
C6_RefreshUnconditional ==
    (lastEvent.name = "refresh" /\ HasToken(user))
        => /\ lastEvent.records = 1
           /\ lastRecordQuery = queryParams(statusFilter, dateRange)

\* C6 as amended: a refresh made with a credential available and no record
\* fetch in flight makes one request to the record source, with the current
\* status and date range; a refresh made while one is in flight makes none.
C6_RefreshWhenNotInFlight ==
    /\ (lastEvent.name = "refresh" /\ HasToken(user) /\ ~lastEvent.busy)
          => /\ lastEvent.records = 1
             /\ Len(recordRequests) = 1
             /\ recordRequests[1].params = queryParams(statusFilter, dateRange)
             /\ lastRecordQuery = queryParams(statusFilter, dateRange)
    /\ (lastEvent.name = "refresh" /\ lastEvent.busy) => lastEvent.records = 0

\* C6 witness: a refresh made a request under filters other than the default
C6_Witness ==
    /\ lastEvent = [name |-> "refresh", busy |-> FALSE, records |-> 1, summaries |-> 0]
    /\ statusFilter = "all"
    /\ dateRange.end = Null
    /\ Len(recordRequests) = 1

\* the state part of C7: with no credential, an event that calls the fetch
\* functions makes no request of either kind
C7_NoResponseWithoutCredential ==
    (lastEvent.name \in Triggers /\ ~HasToken(user))
        => lastEvent.records = 0 /\ lastEvent.summaries = 0

\* C7: with no credential every fetch trigger is a silent no-op: no request
\* of either kind, and error, records, summary, loading flags and in-flight
\* flag unchanged by the step.
C7_NoCredentialNoOp ==
    /\ []C7_NoResponseWithoutCredential
    /\ [][(lastEvent'.name \in Triggers /\ ~HasToken(user'))
            => UNCHANGED << error, allTransfers, summaryData, isLoading, isSummaryLoading,
                            requestInProgress, recordRequests, summaryRequests >>]_vars

\* C7 witness: after the credential was withdrawn the status filter changed;
\* both fetch functions ran and neither made a request
C7_Witness ==
    /\ user = Null
    /\ initialLoadComplete
    /\ lastEvent = [name |-> "setStatusFilter", busy |-> FALSE, records |-> 0, summaries |-> 0]
    /\ Quiescent

\* the requests outstanding, of either kind
Outstanding ==
    { recordRequests[k] : k \in 1..Len(recordRequests) } \cup
    { summaryRequests[k] : k \in 1..Len(summaryRequests) }

\* the request carries the bounds of the current range, both or neither
CarriesCurrentRange(req) ==
    IF dateRange.start # Null /\ dateRange.end # Null
    THEN /\ req.params.start_date = toISOString(dateRange.start)
         /\ req.params.end_date = toISOString(dateRange.end)
    ELSE /\ req.params.start_date = Null
         /\ req.params.end_date = Null

\* C8: every request carries start_date and end_date both or neither, and a
\* request just made carries both exactly when both bounds of the current
\* range are non-null.
C8_DatesSentAsPair ==
    /\ \A req \in Outstanding : (req.params.start_date = Null) <=> (req.params.end_date = Null)
    /\ lastEvent.records > 0 => CarriesCurrentRange(recordRequests[Len(recordRequests)])
    /\ lastEvent.summaries > 0 => CarriesCurrentRange(summaryRequests[Len(summaryRequests)])

\* C8 witness: requests of both kinds were made under a range with only a
\* start, and carry no date
C8_Witness ==
    /\ dateRange.start # Null
    /\ dateRange.end = Null
    /\ lastEvent.records = 1
    /\ lastEvent.summaries = 1
    /\ recordRequests[Len(recordRequests)].params.start_date = Null
    /\ summaryRequests[Len(summaryRequests)].params.start_date = Null

\* the events of the view: search, selection, local completion, drawer, pages
ViewEvents == {"setSearchTerm", "viewTransfer", "markCompleted", "setIsDrawerOpen", "previousPage", "nextPage"}

\* the state part of C9: every request outstanding is a read, and the event
\* that made a request was the arrival of a credential, a change of a filter
\* or a refresh
C9_RequestsAreReads ==
    /\ \A req \in Outstanding : req.method = "GET"
    /\ (lastEvent.records > 0 \/ lastEvent.summaries > 0) => lastEvent.name \in Triggers

\* C9: only the triggers make requests, every request is a read, and no step
\* of the view (search, pages, viewTransfer, markCompleted, drawer) changes
\* the outstanding requests.
C9_ViewMakesNoRequest ==
    /\ []C9_RequestsAreReads
    /\ [][lastEvent'.name \in ViewEvents => UNCHANGED << recordRequests, summaryRequests >>]_vars
    /\ [][(Len(recordRequests') > Len(recordRequests) \/ Len(summaryRequests') > Len(summaryRequests))
            => lastEvent'.name \in Triggers]_vars

\* C9 witness: the search term changed while a credential was available and
\* nothing was outstanding, and nothing is outstanding after it
C9_Witness ==
    /\ lastEvent.name = "setSearchTerm"
    /\ searchTerm # Str(<<>>)
    /\ HasToken(user)
    /\ allTransfers # <<>>
    /\ Quiescent

\* a step that ends a summary fetch without a summary: the catch block, or a
\* body whose status is not "success" or that has no data
SummaryFailedStep ==
    \/ \E i \in 1..MaxSummaryInFlight, failure \in Failures : FetchSummaryFailed(i, failure)
    \/ \E i \in 1..MaxSummaryInFlight, result \in SummaryBodies :
          /\ result.status # "success" \/ result.data = Null
          /\ FetchSummaryOk(i, result)

\* C10: a summary fetch that fails makes the summary null and
\* isSummaryLoading false, and leaves error, isLoading and the full record
\* set as they are.
C10_SummaryFailureClears ==
    [][SummaryFailedStep => /\ summaryData' = Null
                            /\ isSummaryLoading' = FALSE
                            /\ UNCHANGED << error, isLoading, allTransfers >>]_vars

\* C10 witness: a summary fetch has failed while the records of a successful
\* fetch are held
C10_Witness ==
    /\ lastEvent.name = "summaryFailed"
    /\ summaryData = Null
    /\ ~isSummaryLoading
    /\ allTransfers # <<>>
    /\ error = Null

(***************************************************************************)
(* The Filter Engine and the view state on a held record set: the state    *)
(* after a record fetch brought records, both summary fetches ended and    *)
(* the credential was withdrawn.  The hook keeps its records, and a change *)
(* of the date range starts no fetch.                                      *)
(***************************************************************************)
\* records in the held set
FilterMaxRecords == 3

\* a raw reservation with no pickup date-time
NoDateReservation ==
    [ Id |-> Str(<<"t", "3">>), Name |-> Str(<<"R", "3">>),
      Passenger_Name__c |-> Str(<<"A", " ", "S", "m", "i", "t", "h">>),
      Journey_Status__c |-> Lit("Planned"),
      Pickup_Date_Time__c |-> Null,
      Pickup_Resolved_Region__c |-> Str(<<"B", "J", "V">>), Pickup_Address__c |-> Null,
      Dropoff_Resolved_Region__c |-> Null, Dropoff_Address__c |-> Null,
      Flight_Number__c |-> Null,
      Pickup_Location__c |-> Null, Dropoff_Location__c |-> Null ]

FilterRawPool == RawPool \cup {NoDateReservation}

\* the bodies { data } that brought the held set: distinct raw records
FilterBodies ==
    UNION { { d \in [1..n -> FilterRawPool] : \A i, j \in 1..n : i # j => d[i] # d[j] } :
            n \in 0..FilterMaxRecords }

\* the search terms typed: none, one that matches a passenger name, one that
\* matches a reservation id and no other field
FilterSearchTerms == {Str(<<>>), Str(<<"S", "m">>), Str(<<"r", "1">>)}

FilterInit ==
    /\ user = Null
    /\ initialLoadComplete = TRUE
    /\ requestInProgress = FALSE
    /\ \E data \in FilterBodies :
          \E generated \in [1..Len(data) -> GeneratedIds] :
             allTransfers = transformData(data, generated)
    /\ filteredTransfers = applyFilters(allTransfers, [start |-> Today, end |-> Tomorrow], Str(<<>>))
    /\ isLoading = FALSE
    /\ error = Null
    /\ summaryData = Null
    /\ isSummaryLoading = FALSE
    /\ searchTerm = Str(<<>>)
    /\ statusFilter = "Planned"
    /\ dateRange = [start |-> Today, end |-> Tomorrow]
    /\ selectedTransfer = Null
    /\ isDrawerOpen = FALSE
    /\ currentPage = 1
    /\ recordRequests = <<>>
    /\ summaryRequests = <<>>
    /\ lastEvent = [name |-> "setUser", busy |-> FALSE, records |-> 0, summaries |-> 0]
    /\ lastRecordQuery = queryParams("Planned", [start |-> Today, end |-> Tomorrow])
    /\ renderError = Null
    /\ UtilUnset

\* the events of the filters and of the selection
FilterNext ==
    \/ \E r \in DateRanges : SetDateRange(r)
    \/ \E t \in FilterSearchTerms : SetSearchTerm(t)
    \/ \E id \in Ids : handleViewTransfer(id)
    \/ \E id \in Ids : handleMarkCompleted(id)
    \/ \E b \in BOOLEAN : SetIsDrawerOpen(b)

FilterSpec == FilterInit /\ [][FilterNext]_vars

(***************************************************************************)
(* Claims about the Filter Engine                                          *)
(***************************************************************************)
\* the members of a sequence
Range(seq) == { seq[k] : k \in 1..Len(seq) }

\* the record passes the date filter as the claim states it
InRangeByDate(t) == LET d == parseFormattedDate(t.date)
                    IN  d # Null /\ isDateInRange(d, dateRange.start, dateRange.end)

\* C11 as claimed: under every date range, the range with both bounds null
\* included, every visible record has a date that parses and lies in the
\* range.
C11_UnparseableNeverVisible == \A t \in Range(filteredTransfers) : InRangeByDate(t)

\* C11 as amended: under a date range with at least one bound, every visible
\* record has a date that parses and lies in the range; under the range with
\* both bounds null the date filter is not applied, and a record whose date
\* does not parse is visible when it passes the search filter.
C11_UnparseableHiddenUnderRange ==
    /\ (dateRange.start # Null \/ dateRange.end # Null)
          => \A t \in Range(filteredTransfers) : InRangeByDate(t)
    /\ (dateRange.start = Null /\ dateRange.end = Null /\ searchTerm = Str(<<>>))
          => filteredTransfers = allTransfers

\* C11 witness: under a range with one bound, a record whose date does not
\* parse is held and hidden while another record is visible
C11_Witness ==
    /\ dateRange.start = Null
    /\ dateRange.end # Null
    /\ \E t \in Range(allTransfers) :
          parseFormattedDate(t.date) = Null /\ t \notin Range(filteredTransfers)
    /\ filteredTransfers # <<>>

\* the fields the claim names
ClaimedSearchFields == {"passengerName", "bookingReference", "flightNumber", "origin", "destination"}

\* the fields the search filter reads
SearchedFields == ClaimedSearchFields \cup {"reservationId"}

\* the lower-cased search term is a substring of one of the fields, lower-cased
MatchesOn(t, fields) ==
    \E f \in fields : Truthy(t[f]) /\ includes(toLowerCase(t[f]), toLowerCase(searchTerm))

\* the record passes the date filter, which is applied when the range has a bound
PassesDate(t) == (dateRange.start # Null \/ dateRange.end # Null) => InRangeByDate(t)

\* the visible records are the date-passing records that match on `fields`,
\* and all the date-passing records when the search term is empty
VisibleByFields(fields) ==
    \A t \in Range(allTransfers) :
        PassesDate(t) =>
            (t \in Range(filteredTransfers) <=> (searchTerm = Str(<<>>) \/ MatchesOn(t, fields)))

\* C12 as claimed: with a non-empty search term a date-passing record is
\* visible exactly when the term is a substring, case ignored, of its
\* passenger name, booking reference, flight number, origin or destination;
\* with an empty term every date-passing record is visible.
C12_SearchOverFiveFields == VisibleByFields(ClaimedSearchFields)

\* C12 as amended: the same with the reservation id among the fields searched.
C12_SearchOverSixFields == VisibleByFields(SearchedFields)

\* C12 witness: under a non-empty term a record is visible that matches on its
\* reservation id alone, and another date-passing record is hidden
C12_Witness ==
    /\ searchTerm # Str(<<>>)
    /\ \E t \in Range(filteredTransfers) :
          ~MatchesOn(t, ClaimedSearchFields) /\ MatchesOn(t, {"reservationId"})
    /\ \E t \in Range(allTransfers) : PassesDate(t) /\ t \notin Range(filteredTransfers)

\* the ids of the records of a sequence
IdSet(seq) == { seq[k].id : k \in 1..Len(seq) }

\* the two filters of applyFilters in the other order: search, then date
searchThenDate(all, range, term) ==
    LET inDate(t) == dateFilter(t, range)
        matches(t) == searchFilter(t, toLowerCase(term))
        found == IF Truthy(term) THEN SelectSeq(all, matches) ELSE all
    IN  IF range.start # Null \/ range.end # Null THEN SelectSeq(found, inDate) ELSE found

\* C13: on the full record set held, under the current date range and search
\* term, date-then-search and search-then-date give the same ids, and the
\* combined filter applied to its own output gives that output again.
C13_FiltersCommuteAndIdempotent ==
    /\ IdSet(applyFilters(allTransfers, dateRange, searchTerm))
           = IdSet(searchThenDate(allTransfers, dateRange, searchTerm))
    /\ applyFilters(applyFilters(allTransfers, dateRange, searchTerm), dateRange, searchTerm)
           = applyFilters(allTransfers, dateRange, searchTerm)
    /\ applyFilters(filteredTransfers, dateRange, searchTerm) = filteredTransfers

\* C13 witness: both filters are at work, each removes a record the other
\* keeps, and a record passes both
C13_Witness ==
    /\ searchTerm # Str(<<>>)
    /\ dateRange.start # Null \/ dateRange.end # Null
    /\ filteredTransfers # <<>>
    /\ \E t \in Range(allTransfers) : PassesDate(t) /\ ~MatchesOn(t, SearchedFields)
    /\ \E t \in Range(allTransfers) : ~PassesDate(t) /\ MatchesOn(t, SearchedFields)

(***************************************************************************)
(* Claims about the derived view, the loading flag and the full record set *)
(***************************************************************************)
\* seq is a sub-collection of all: its records are records of all, in the
\* order of all
RECURSIVE IsSubSeq(_, _)
IsSubSeq(seq, all) ==
    IF seq = <<>> THEN TRUE
    ELSE IF all = <<>> THEN FALSE
    ELSE IF Head(seq) = Head(all) THEN IsSubSeq(Tail(seq), Tail(all))
    ELSE IsSubSeq(seq, Tail(all))

\* C14: after every event, the derivation effect having run, the exposed list
\* is the filter of the current full record set by the current date range and
\* search term; it is a sub-collection of the full record set, so that a
\* visible record marked completed shows as completed.
C14_TransfersDerived ==
    /\ filteredTransfers = applyFilters(allTransfers, dateRange, searchTerm)
    /\ IsSubSeq(filteredTransfers, allTransfers)
    /\ \A t \in Range(filteredTransfers) : t \in Range(allTransfers)

\* C14 witness: markCompleted changed a record that a search term keeps
\* visible, and the visible record is the completed one
C14_Witness ==
    /\ lastEvent.name = "markCompleted"
    /\ searchTerm # Str(<<>>)
    /\ \E k \in 1..Len(filteredTransfers) : filteredTransfers[k].status = "completed"

\* C15: while a record fetch is in flight isLoading is true; and once a record
\* request has been made and none is in flight, so that at least one record
\* fetch has completed, isLoading is false, whatever the fetch ended in.
C15_LoadingFollowsFetch ==
    /\ (recordRequests # <<>> \/ requestInProgress) => isLoading
    /\ (lastRecordQuery # Null /\ recordRequests = <<>>) => ~isLoading
    /\ (lastEvent.name \in {"fetchOk", "fetchFailed"} /\ recordRequests = <<>>) => ~isLoading

\* C15 witness: the records of an earlier fetch are held, a refresh has
\* started another fetch and isLoading is true again
C15_Witness ==
    /\ recordRequests # <<>>
    /\ isLoading
    /\ error = Null
    /\ allTransfers # <<>>
    /\ lastEvent.name = "refresh"

(***************************************************************************)
(* Pagination of TransfersTable on a long list: the state after a record   *)
(* fetch brought n records of today (or failed, for n = 0, so that the     *)
(* table is shown with an empty list) and both summary fetches ended.      *)
(***************************************************************************)
\* records in the response
PageMaxRecords == 60

DigitChars == <<"0", "1", "2", "3", "4", "5", "6", "7", "8", "9">>

RECURSIVE DigitString(_)
\* the decimal digits of a natural number, as characters
DigitString(n) ==
    IF n < 10 THEN <<DigitChars[n + 1]>>
    ELSE Append(DigitString(n \div 10), DigitChars[(n % 10) + 1])

\* the i-th raw reservation of the response; the first has a passenger name
PageReservation(i) ==
    [ Id |-> Str(<<"p">> \o DigitString(i)), Name |-> Str(<<"P">> \o DigitString(i)),
      Passenger_Name__c |-> IF i = 1 THEN Str(<<"J", " ", "S", "m", "i", "t", "h">>) ELSE Null,
      Journey_Status__c |-> Lit("Planned"),
      Pickup_Date_Time__c |-> MkDate(2025, 3, 22, 9),
      Pickup_Resolved_Region__c |-> Str(<<"B", "J", "V">>), Pickup_Address__c |-> Null,
      Dropoff_Resolved_Region__c |-> Null, Dropoff_Address__c |-> Null,
      Flight_Number__c |-> Null,
      Pickup_Location__c |-> Null, Dropoff_Location__c |-> Null ]

PageBody(n) == [i \in 1..n |-> PageReservation(i)]

PageInit ==
    /\ user = [token |-> "tok"]
    /\ initialLoadComplete = TRUE
    /\ requestInProgress = FALSE
    /\ \E n \in 0..PageMaxRecords :
          /\ allTransfers = transformData(PageBody(n), [i \in 1..n |-> Str(<<"g", "1">>)])
          /\ error = IF n = 0 THEN Lit("Failed to fetch transfers. Please try again later.") ELSE Null
    /\ filteredTransfers = applyFilters(allTransfers, [start |-> Today, end |-> Tomorrow], Str(<<>>))
    /\ isLoading = FALSE
    /\ summaryData = Null
    /\ isSummaryLoading = FALSE
    /\ searchTerm = Str(<<>>)
    /\ statusFilter = "Planned"
    /\ dateRange = [start |-> Today, end |-> Tomorrow]
    /\ selectedTransfer = Null
    /\ isDrawerOpen = FALSE
    /\ currentPage = 1
    /\ recordRequests = <<>>
    /\ summaryRequests = <<>>
    /\ lastEvent = [name |-> "summaryFailed", busy |-> FALSE, records |-> 0, summaries |-> 0]
    /\ lastRecordQuery = queryParams("Planned", [start |-> Today, end |-> Tomorrow])
    /\ renderError = Null
    /\ UtilUnset

\* the page buttons, and the search box that shortens the list
PageNext ==
    \/ handlePreviousPage
    \/ handleNextPage
    \/ \E t \in SearchTerms : SetSearchTerm(t)

PageSpec == PageInit /\ [][PageNext]_vars

\* the page is a page number, counted from 1
PageIsPositive == currentPage \in Nat /\ currentPage >= 1

\* previousPage at page 1 leaves the page at 1 and moves it back by one otherwise
PreviousPageClamped ==
    [][lastEvent'.name = "previousPage"
          => currentPage' = IF currentPage = 1 THEN 1 ELSE currentPage - 1]_vars

\* nextPage at the last page, or with no page at all, leaves the page as it
\* is and moves it on by one before the last page
NextPageClamped ==
    [][lastEvent'.name = "nextPage"
          => currentPage' = IF currentPage >= totalPages(filteredTransfers)
                            THEN currentPage
                            ELSE currentPage + 1]_vars

\* C16: pagination is clamped: previousPage at page 1 leaves currentPage at 1,
\* nextPage at the last page, the empty list with zero pages included, leaves
\* it unchanged, neither wraps, and otherwise each moves currentPage by one.
C16_PaginationClamped == []PageIsPositive /\ PreviousPageClamped /\ NextPageClamped

\* C16 witness: nextPage has brought the table to the third and last page of
\* a list of more than fifty records
C16_Witness ==
    /\ lastEvent.name = "nextPage"
    /\ Len(filteredTransfers) > 2 * itemsPerPage
    /\ currentPage = 3
    /\ totalPages(filteredTransfers) = 3

(***************************************************************************)
(* Claims about the selection and the local completion                     *)
(***************************************************************************)
\* t2 is t with its status completed and every other field as it was
CompletedImage(t, t2) ==
    /\ DOMAIN t2 = DOMAIN t
    /\ t2.status = "completed"
    /\ \A f \in DOMAIN t \ {"status"} : t2[f] = t[f]

\* C17: markCompleted(id) makes the status of the record with that id
\* completed in the full record set and in the selection when the selected
\* record has that id; every other record, the selection of another record
\* and every other field of the record are unchanged.
C17_MarkCompletedOnlyStatus ==
    [][\A id \in Ids :
         handleMarkCompleted(id)
            => /\ Len(allTransfers') = Len(allTransfers)
               /\ \A k \in 1..Len(allTransfers) :
                     IF allTransfers[k].id = id
                     THEN CompletedImage(allTransfers[k], allTransfers'[k])
                     ELSE allTransfers'[k] = allTransfers[k]
               /\ IF selectedTransfer # Null /\ selectedTransfer.id = id
                  THEN CompletedImage(selectedTransfer, selectedTransfer')
                  ELSE selectedTransfer' = selectedTransfer]_vars

\* C17 witness: the selected record was marked completed, in the selection
\* and in the full set, and another record of the full set is not completed
C17_Witness ==
    /\ lastEvent.name = "markCompleted"
    /\ selectedTransfer # Null
    /\ selectedTransfer.status = "completed"
    /\ \E t \in Range(allTransfers) : t.id = selectedTransfer.id /\ t.status = "completed"
    /\ \E t \in Range(allTransfers) : t.status # "completed"

\* markCompleted(id) on the record shown in the open drawer
MarkCompletedOfShown(id) ==
    /\ isDrawerOpen
    /\ selectedTransfer # Null
    /\ selectedTransfer.id = id
    /\ handleMarkCompleted(id)

\* C18 as claimed: markCompleted on the record shown in the open drawer
\* leaves the drawer open on that record, its status completed; markCompleted
\* never changes isDrawerOpen.
C18_MarkCompletedKeepsDrawer ==
    [][\A id \in Ids :
         /\ MarkCompletedOfShown(id)
               => isDrawerOpen' /\ CompletedImage(selectedTransfer, selectedTransfer')
         /\ handleMarkCompleted(id) => isDrawerOpen' = isDrawerOpen]_vars

\* C18 as amended: markCompleted on the record shown in the open drawer
\* makes the status of the selected record completed and closes the drawer;
\* every markCompleted leaves the drawer closed.
C18_MarkCompletedClosesDrawer ==
    [][\A id \in Ids :
         /\ MarkCompletedOfShown(id)
               => ~isDrawerOpen' /\ CompletedImage(selectedTransfer, selectedTransfer')
         /\ handleMarkCompleted(id) => ~isDrawerOpen']_vars

\* C18 witness: after markCompleted the record selected is completed and the
\* drawer is closed
C18_Witness ==
    /\ lastEvent.name = "markCompleted"
    /\ ~isDrawerOpen
    /\ selectedTransfer # Null
    /\ selectedTransfer.status = "completed"
    /\ selectedTransfer \in Range(allTransfers)

\* C19: a change of the search term or of the date range leaves the selected
\* record and the drawer as they are, and viewTransfer(id) selects the record
\* of the full set with that id, visible or not, and opens the drawer.
C19_SelectionSurvivesFilters ==
    /\ [][lastEvent'.name \in {"setSearchTerm", "setDateRange"}
             => UNCHANGED << selectedTransfer, isDrawerOpen >>]_vars
    /\ [][\A id \in Ids :
            (handleViewTransfer(id) /\ \E t \in Range(allTransfers) : t.id = id)
               => /\ selectedTransfer' \in Range(allTransfers)
                  /\ selectedTransfer'.id = id
                  /\ isDrawerOpen']_vars

\* C19 witness: a change of a filter has removed the selected record from the
\* visible set, and it is still selected with the drawer open
C19_Witness ==
    /\ lastEvent.name \in {"setSearchTerm", "setDateRange"}
    /\ isDrawerOpen
    /\ selectedTransfer \in Range(allTransfers)
    /\ selectedTransfer \notin Range(filteredTransfers)
    /\ filteredTransfers # <<>>

\* all2 is all with the status of some records made completed and nothing
\* else changed
OnlyCompletions(all, all2) ==
    /\ Len(all2) = Len(all)
    /\ \A k \in 1..Len(all) : all2[k] = all[k] \/ CompletedImage(all[k], all2[k])

\* C20: the full record set changes only when a record fetch succeeds or
\* when markCompleted makes the status of the record of one id completed: no
\* change of a filter or of the search term, failed fetch, summary fetch,
\* viewTransfer, drawer or page event adds, removes or alters a record.
C20_RecordsChangeOnlyByFetchOrCompletion ==
    [][allTransfers' # allTransfers
          => \/ lastEvent'.name = "fetchOk"
             \/ /\ lastEvent'.name = "markCompleted"
                /\ OnlyCompletions(allTransfers, allTransfers')
                /\ \E id \in Ids : \A k \in 1..Len(allTransfers) :
                      allTransfers'[k] # allTransfers[k] => allTransfers[k].id = id]_vars

\* C20 witness: since the last successful record fetch a record was marked
\* completed, and then a record fetch failed and left the records as they were
C20_Witness ==
    /\ lastEvent.name = "fetchFailed"
    /\ error # Null
    /\ \E t \in Range(allTransfers) : t.status = "completed"

(***************************************************************************)
(* The Record Normalizer on its own: the state after the initial load made *)
(* its record request and both summary fetches ended.  The response brings *)
(* one raw record out of a pool that varies the source status, the pickup  *)
(* date-time, the two location fields and the booking name.                *)
(***************************************************************************)
\* records in one response
NormMaxRecords == 1

\* the source statuses of the table, two the table does not have (one differs
\* from an entry by case only), and a missing one
NormStatuses ==
    { Lit("Planned"), Lit("Driver Underway"), Lit("Driver Arrived"), Lit("Journey In Progress"),
      Lit("Completed"), Lit("No Show"), Lit("Cancelled with Costs"),
      Lit("planned"), Lit("Cancelled"), Null }

\* a pickup date-time of today, an absent one and one that does not parse
NormDateTimes == { MkDate(2025, 3, 22, 9), Null, Lit("garbage") }

\* a location field: absent, with both coordinates, with one, with none
NormLocations ==
    { Null,
      [latitude |-> Number(37), longitude |-> Number(27)],
      [latitude |-> Number(37), longitude |-> Null],
      [latitude |-> Null, longitude |-> Number(27)],
      [latitude |-> Null, longitude |-> Null] }

\* a raw reservation of the pool
NormReservation(name, status, dateTime, pickup, dropoff) ==
    [ Id |-> Str(<<"t", "1">>), Name |-> name,
      Passenger_Name__c |-> Str(<<"J", " ", "S", "m", "i", "t", "h">>),
      Journey_Status__c |-> status,
      Pickup_Date_Time__c |-> dateTime,
      Pickup_Resolved_Region__c |-> Str(<<"B", "J", "V">>), Pickup_Address__c |-> Null,
      Dropoff_Resolved_Region__c |-> Null, Dropoff_Address__c |-> Null,
      Flight_Number__c |-> Null,
      Pickup_Location__c |-> pickup, Dropoff_Location__c |-> dropoff ]

\* every status with every date-time and every pickup location; the dropoff
\* location and the booking name vary on the planned record of today
NormRawPool ==
    { NormReservation(Str(<<"R", "1">>), s, d, l, Null) :
          s \in NormStatuses, d \in NormDateTimes, l \in NormLocations } \cup
    { NormReservation(n, Lit("Planned"), MkDate(2025, 3, 22, 9), Null, l) :
          n \in {Str(<<"R", "1">>), Null}, l \in NormLocations }

NormBodies ==
    UNION { { d \in [1..n -> NormRawPool] : \A i, j \in 1..n : i # j => d[i] # d[j] } :
            n \in 0..NormMaxRecords }

NormInit ==
    /\ user = [token |-> "tok"]
    /\ initialLoadComplete = TRUE
    /\ requestInProgress = TRUE
    /\ allTransfers = <<>>
    /\ filteredTransfers = <<>>
    /\ isLoading = TRUE
    /\ error = Null
    /\ summaryData = Null
    /\ isSummaryLoading = FALSE
    /\ searchTerm = Str(<<>>)
    /\ statusFilter = "Planned"
    /\ dateRange = [start |-> Today, end |-> Tomorrow]
    /\ selectedTransfer = Null
    /\ isDrawerOpen = FALSE
    /\ currentPage = 1
    /\ recordRequests = << request("/transfers", user, statusFilter, dateRange) >>
    /\ summaryRequests = <<>>
    /\ lastEvent = [name |-> "summaryFailed", busy |-> FALSE, records |-> 0, summaries |-> 0]
    /\ lastRecordQuery = queryParams("Planned", [start |-> Today, end |-> Tomorrow])
    /\ renderError = Null
    /\ UtilUnset

\* the response arrives, the user refreshes and types in the search box
NormNext ==
    \/ \E i \in 1..MaxRecordInFlight, data \in NormBodies :
           \E generated \in [1..Len(data) -> GeneratedIds] : FetchTransfersOk(i, data, generated)
    \/ RefreshTransfers
    \/ \E t \in FilterSearchTerms : SetSearchTerm(t)

NormSpec == NormInit /\ [][NormNext]_vars

(***************************************************************************)
(* Claims about the Record Normalizer                                      *)
(***************************************************************************)
\* the table of the claim: source status, internal status
ClaimedStatusTable ==
    { <<Lit("Planned"), "planned">>,
      <<Lit("Driver Underway"), "pending">>,
      <<Lit("Driver Arrived"), "pending">>,
      <<Lit("Journey In Progress"), "pending">>,
      <<Lit("Completed"), "completed">>,
      <<Lit("No Show"), "cancelled">>,
      <<Lit("Cancelled with Costs"), "cancelled-with-costs">> }

InternalStatuses == {"planned", "pending", "completed", "cancelled", "cancelled-with-costs"}

\* the status the claim gives to a source status
ClaimedStatus(sfStatus) ==
    IF \E pair \in ClaimedStatusTable : pair[1] = sfStatus
    THEN (CHOOSE pair \in ClaimedStatusTable : pair[1] = sfStatus)[2]
    ELSE "pending"

UndatedBodies ==
    { data \in NormBodies :
        /\ data # <<>>
        /\ \A k \in 1..Len(data) : NewDate(data[k].Pickup_Date_Time__c) = InvalidDate }

\* C22: a record fetch that succeeds on a raw record whose pickup date-time
\* is missing or unparseable does not throw, and gives the record the
\* pickupTime "N/A".
C22_UnparseableTimeIsNA ==
    [][\A i \in 1..MaxRecordInFlight, data \in UndatedBodies :
         \A generated \in [1..Len(data) -> GeneratedIds] :
            FetchTransfersOk(i, data, generated)
               => /\ Len(allTransfers') = Len(data)
                  /\ \A k \in 1..Len(data) : allTransfers'[k].pickupTime = Lit("N/A")]_vars

SameDay(a, b) == a.year = b.year /\ a.month = b.month /\ a.day = b.day

HasBothCoordinates(loc) == loc # Null /\ loc.latitude # Null /\ loc.longitude # Null

\* the Transfer's location is the pair of the source field when the field
\* carries both coordinates, and is omitted otherwise
LocationAsClaimed(loc, mapped) ==
    IF HasBothCoordinates(loc)
    THEN mapped = [latitude |-> loc.latitude, longitude |-> loc.longitude]
    ELSE mapped = Null

\* C24: a record fetch that succeeds gives a record a pickup (dropoff)
\* location only when the source field carries both a latitude and a
\* longitude, and omits it when the field is absent or lacks a coordinate.
C24_LocationNeedsBothCoordinates ==
    [][\A i \in 1..MaxRecordInFlight, data \in NormBodies :
         \A generated \in [1..Len(data) -> GeneratedIds] :
            FetchTransfersOk(i, data, generated)
               => \A k \in 1..Len(data) :
                     /\ LocationAsClaimed(data[k].Pickup_Location__c, allTransfers'[k].pickupLocation)
                     /\ LocationAsClaimed(data[k].Dropoff_Location__c, allTransfers'[k].dropoffLocation)]_vars

(***************************************************************************)
(* The date utilities called on their own: parseFormattedDate on a display *)
(* string, then formatDate on what it returned.  The hook is as            *)
(* constructed and takes no step.                                          *)
(***************************************************************************)
\* the years of the display strings: a leap year and the year after
RoundTripYears == {2024, 2025}

\* "Mon dd, yyyy": every month token, every day of the month written with
\* two digits
CanonicalStrings ==
    UNION { { Display(<<Word(months[m + 1]), Num(TwoDigits(d), TRUE), Num(Digits(y), FALSE)>>) :
                  d \in 1..DaysInMonth(y, m) } : m \in 0..11, y \in RoundTripYears }

\* the same days with a single-digit day written with one digit
UnpaddedStrings ==
    UNION { { Display(<<Word(months[m + 1]), Num(Digits(d), TRUE), Num(Digits(y), FALSE)>>) :
                  d \in 1..DaysInMonth(y, m) } : m \in 0..11, y \in RoundTripYears }

DisplayStrings == CanonicalStrings \cup UnpaddedStrings

RoundTripInit ==
    /\ HookInit
    /\ parseInput \in DisplayStrings
    /\ parseResult = Unset
    /\ formatResult = Unset
    /\ rangeDate = Unset
    /\ rangeStart = Unset
    /\ rangeEnd = Unset
    /\ rangeResult = Unset

\* parseFormattedDate(parseInput)
ParseFormattedDate ==
    /\ parseResult = Unset
    /\ parseResult' = parseFormattedDate(parseInput)
    /\ UNCHANGED << hookVars, parseInput, formatResult, rangeDate, rangeStart, rangeEnd, rangeResult >>

\* formatDate of what parseFormattedDate returned
FormatDate ==
    /\ parseResult # Unset
    /\ formatResult = Unset
    /\ formatResult' = formatDate(parseResult)
    /\ UNCHANGED << hookVars, parseInput, parseResult, rangeDate, rangeStart, rangeEnd, rangeResult >>

RoundTripNext == ParseFormattedDate \/ FormatDate

RoundTripSpec == RoundTripInit /\ [][RoundTripNext]_vars

(***************************************************************************)
(* Claims about the date utilities                                         *)
(***************************************************************************)
\* C25: for every string s in the canonical "Mon dd, yyyy" format, a
\* single-digit day being written with two digits, parseFormattedDate(s) is
\* not null and formatDate(parseFormattedDate(s)) is s.
C25_RoundTrip ==
    parseInput \in CanonicalStrings
        => /\ parseResult # Unset => parseResult # Null
           /\ formatResult # Unset => formatResult = parseInput

(***************************************************************************)
(* isDateInRange called on its own, on a date and two bounds that are null *)
(* or a day at the turn of a year or of a month, at midnight, at noon or   *)
(* late in the evening.                                                    *)
(***************************************************************************)
RangeDays ==
    { <<2024, 11, 31>>, <<2025, 0, 1>>, <<2025, 0, 31>>, <<2025, 1, 1>>, <<2025, 1, 2>> }

RangeHours == {0, 12, 23}

\* the dates handed to isDateInRange, null included
RangeDates == { MkDate(day[1], day[2], day[3], h) : day \in RangeDays, h \in RangeHours } \cup {Null}

RangeInit ==
    /\ HookInit
    /\ parseInput = Unset
    /\ parseResult = Unset
    /\ formatResult = Unset
    /\ rangeDate \in RangeDates
    /\ rangeStart \in RangeDates
    /\ rangeEnd \in RangeDates
    /\ rangeResult = Unset

\* isDateInRange(rangeDate, rangeStart, rangeEnd)
IsDateInRange ==
    /\ rangeResult = Unset
    /\ rangeResult' = [returned |-> isDateInRange(rangeDate, rangeStart, rangeEnd)]
    /\ UNCHANGED << hookVars, parseInput, parseResult, formatResult, rangeDate, rangeStart, rangeEnd >>

RangeNext == IsDateInRange

RangeSpec == RangeInit /\ [][RangeNext]_vars

\* the calendar day of a Date as a number that grows with the day
DayNumber(d) == (d.year * 12 + d.month) * 31 + d.day

\* day(start) <= day(d) <= day(end), a null bound being unbounded
DayInRange(d, start, end) ==
    /\ d # Null
    /\ start # Null => DayNumber(start) <= DayNumber(d)
    /\ end # Null => DayNumber(d) <= DayNumber(end)

\* C26: isDateInRange(d, start, end) is the comparison of calendar days
\* day(start) <= day(d) <= day(end): a null bound is unbounded, the time of
\* day of d, start and end is ignored, the days of start and of end are in
\* the range, and a null d is out of every range.
C26_RangeByCalendarDay ==
    rangeResult # Unset
        => /\ rangeResult.returned = DayInRange(rangeDate, rangeStart, rangeEnd)
           /\ rangeDate = Null => ~rangeResult.returned
           /\ (rangeDate # Null /\ rangeStart = Null /\ rangeEnd = Null) => rangeResult.returned
           /\ (rangeDate # Null /\ rangeStart # Null /\ rangeEnd # Null
                 /\ (SameDay(rangeDate, rangeStart) \/ SameDay(rangeDate, rangeEnd))
                 /\ DayNumber(rangeStart) <= DayNumber(rangeEnd)) => rangeResult.returned

\* C26 witness: a date late in the evening of the day of the end bound, which
\* is at midnight, with a start bound at noon of an earlier day, is in range
C26_Witness ==
    /\ rangeResult # Unset
    /\ rangeResult.returned
    /\ rangeDate # Null /\ rangeStart # Null /\ rangeEnd # Null
    /\ SameDay(rangeDate, rangeEnd)
    /\ rangeDate.hours = 23
    /\ rangeEnd.hours = 0
    /\ rangeStart.hours = 12
    /\ DayNumber(rangeStart) < DayNumber(rangeDate)

(***************************************************************************)
(* Claims about the initial load, the summary fetch and the page           *)
(***************************************************************************)
\* C27: the step in which a credential first becomes available makes one
\* request to the record source and one request to the aggregate source,
\* both with the filters of that moment; the two effects that run in that
\* step make no second request to either source.
C27_InitialLoadOnce ==
    [][(~initialLoadComplete /\ initialLoadComplete')
          => /\ lastEvent'.name = "setUser"
             /\ lastEvent'.records = 1
             /\ lastEvent'.summaries = 1
             /\ \A req \in Range(recordRequests') \cup Range(summaryRequests') :
                   req.params = queryParams(statusFilter, dateRange)]_vars

\* isSummaryLoading is true as long as a summary request is outstanding
SummaryLoadingWhileOutstanding == summaryRequests # <<>> => isSummaryLoading

\* the response to a summary request that was issued for another status or
\* date range than the current ones does not change the summary
StaleSummaryNotApplied ==
    [][\A i \in 1..MaxSummaryInFlight, result \in SummaryBodies :
          (/\ HasToken(user)
           /\ i \in 1..Len(summaryRequests)
           /\ summaryRequests[i].params # queryParams(statusFilter, dateRange)
           /\ FetchSummaryOk(i, result))
             => summaryData' = summaryData]_vars

\* C28: isSummaryLoading is true as long as any summary request is
\* outstanding, and of two overlapping summary requests the result of the
\* one issued for former filters does not overwrite the summary, so that
\* once none is in flight the summary is the response to the request issued
\* for the current status and date range.
C28_SummaryIsCurrent == []SummaryLoadingWhileOutstanding /\ StaleSummaryNotApplied

\* C29: the page of the table is never before the first page nor beyond the
\* last page of the list shown: 1 <= currentPage <= max(1, totalPages),
\* after every page navigation and every change of the visible list.
C29_PageWithinList ==
    /\ currentPage >= 1
    /\ currentPage <= (IF totalPages(filteredTransfers) > 1 THEN totalPages(filteredTransfers) ELSE 1)

\* the fields the search filter dereferences whatever their value
DereferencedFields == {"passengerName", "reservationId", "bookingReference", "origin", "destination"}

\* C30: every field the search filter dereferences is a string on every
\* record held, a record built from a raw record with no booking name
\* included, and applying a search term raises no error.
C30_SearchNeverThrows ==
    /\ \A t \in Range(allTransfers) : \A f \in DereferencedFields : t[f] # Null
    /\ renderError = Null

====
